---------------------------- MODULE Spec2Model ----------------------------
(***************************************************************************)
(* Model of Pathing/GPS.py: the wheelchair cost function, the Euclidean    *)
(* heuristic, wheelchairPath (networkx.astar_path driven by the two        *)
(* functions, with NetworkXNoPath turned into the empty list) and          *)
(* pathFromCoords (nearest-node lookup, then wheelchairPath).              *)
(*                                                                         *)
(* G is an nx.MultiDiGraph (the annotation of every function of the file,  *)
(* and what osmnx loads).  Its adjacency is G._adj[u][v] = {key: attrs}:   *)
(* one attribute dictionary per parallel edge, keyed by the edge key.      *)
(* astar_path is called with a callable weight, so for every neighbour v   *)
(* of the expanded node u it calls weight(u, v, G._adj[u][v]): the third   *)
(* argument is the dictionary of the parallel edges, keyed by edge key.    *)
(* Dictionaries are functions over strings; None (a missing key under      *)
(* dict.get) is the string "None"; the edge keys 0, 1 are "0", "1".        *)
(***************************************************************************)
EXTENDS Integers, Sequences, FiniteSets, TLC

VARIABLES
    G,          \* node -> sequence of [v, data]: G._adj in insertion order
    pc,         \* "idle" | "search" | "done": position of the one call made
    call,       \* what was called, with its arguments
    origin,     \* wheelchairPath's origin   (astar_path's source)
    endpoint,   \* wheelchairPath's endpoint (astar_path's target)
    queue,      \* astar_path's heap, in push order (the count() tie-break)
    enqueued,   \* astar_path's enqueued: node -> [qcost, h]
    explored,   \* astar_path's explored: node -> parent (None for the source)
    charged,    \* the weight() calls made so far: [u, v, cost]
    result      \* [kind, path, exc, printed, weight]: how the call ended

vars == <<G, pc, call, origin, endpoint, queue, enqueued, explored, charged, result>>

-----------------------------------------------------------------------------
(* Bounds and inputs *)

\* Largest edge length of the graphs explored.
MaxLen == 2

\* Longest heap the search may build (never reached: see QueueWithinBound).
MaxQueue == 6

\* float('inf'): larger than every finite sum of lengths; Plus saturates at it.
Inf == 1000000

\* None as a parent link (node identifiers are positive).
None == 0

\* The nodes of G: intersections along one street; node 4 is isolated.
Nodes == 1..4

\* Identifiers a caller may pass; 5 is not a node of G.
NodeIds == 1..5

\* G.nodes[n]['x'] (longitude) and G.nodes[n]['y'] (latitude).
Pos == [n \in Nodes |-> [x |-> 0, y |-> n - 1]]

\* The ordered pairs that may carry edges; 2 <-> 3 is a cycle.
Allowed(u) == CASE u = 1 -> {2, 3}
                [] u = 2 -> {3}
                [] u = 3 -> {2}
                [] OTHER -> {}

\* The lengths of lone accessible edges: zero and the largest.
Lengths == {0, MaxLen}

\* Edge attribute dictionaries of a lone edge: accessible with any length,
\* and not accessible.
AttrDicts ==
    {[wheelchair |-> "yes", length |-> l] : l \in Lengths}
    \cup {[wheelchair |-> "no", length |-> 1]}

\* G._adj[u][v] for one edge, and for two parallel edges (pair 1 -> 2 only);
\* the parallel edges also carry an unknown tag, a missing tag and a
\* missing length.
SingleEdge == {("0" :> a) : a \in AttrDicts}

ParallelEdges ==
    {("0" :> [wheelchair |-> "no", length |-> 1]) @@ ("1" :> [wheelchair |-> "yes", length |-> l]) : l \in {1, MaxLen}}
    \cup {("0" :> [wheelchair |-> "yes", length |-> MaxLen]) @@ ("1" :> [wheelchair |-> "unknown", length |-> 1])}
    \cup {("0" :> [length |-> 1]) @@ ("1" :> [wheelchair |-> "yes"])}

KeyDicts(u, v) == IF u = 1 /\ v = 2 THEN SingleEdge \cup ParallelEdges ELSE SingleEdge

Entries(u) == UNION {{[v |-> v, data |-> d] : d \in KeyDicts(u, v)} : v \in Allowed(u)}

\* The adjacency of u: its neighbours, each once, in any insertion order.
SuccSeqs(u) ==
    {s \in UNION {[1..n -> Entries(u)] : n \in 0..Cardinality(Allowed(u))} :
        \A i, j \in 1..Len(s) : i /= j => s[i].v /= s[j].v}

Graphs == {[n \in Nodes |-> CASE n = 1 -> a [] n = 2 -> b [] n = 3 -> c [] OTHER -> <<>>] :
              a \in SuccSeqs(1), b \in SuccSeqs(2), c \in SuccSeqs(3)}

\* Coordinates a caller may pass to pathFromCoords: x (longitude) and
\* y (latitude) of the points (0, 2) and (2, 2).
Xs == {0, 2}
Ys == {2}

-----------------------------------------------------------------------------
(* Pure functions *)

\* dict.get(key, default)
Get(d, k, default) == IF k \in DOMAIN d THEN d[k] ELSE default

\* float addition restricted to non-negative values and inf
Plus(a, b) == IF a >= Inf \/ b >= Inf THEN Inf ELSE a + b

\* Mutant: every edge not tagged "no" is taken as accessible.
costWheelchairNotNo(u, v, data) ==
    IF Get(data, "wheelchair", "None") /= "no"
    THEN Get(data, "length", 1)
    ELSE Inf

costWheelchair(u, v, data) ==
    IF Get(data, "wheelchair", "None") = "yes"
    THEN Get(data, "length", 1)
    ELSE Inf

\* math.sqrt on the squared distances of Pos (all perfect squares)
Sqrt(n) == CHOOSE r \in 0..n : r * r <= n /\ (r + 1) * (r + 1) > n

euclidianDistNode(u, v) ==
    LET x1 == Pos[u].x
        y1 == Pos[u].y
        x2 == Pos[v].x
        y2 == Pos[v].y
    IN  Sqrt((x1 - x2) * (x1 - x2) + (y1 - y2) * (y1 - y2))


-----------------------------------------------------------------------------
(* State *)

NoResult == [kind |-> "none", path |-> <<>>, exc |-> "", printed |-> FALSE, weight |-> 0]

Init ==
    /\ G \in Graphs
    /\ pc = "idle"
    /\ call = [op |-> "none"]
    /\ origin = None
    /\ endpoint = None
    /\ queue = <<>>
    /\ enqueued = <<>>
    /\ explored = <<>>
    /\ charged = {}
    /\ result = NoResult

-----------------------------------------------------------------------------
(* networkx.astar_path(G, origin, endpoint, heuristic, weight=costWheelchair) *)

\* _weight_function(G, weight) returns a callable weight unchanged, so the
\* search calls costWheelchair(u, v, G._adj[u][v]).
weight(u, v, w) == costWheelchair(u, v, w)

heuristic(u, v) == euclidianDistNode(u, v)

\* heappop: the least (priority, count) entry; count grows with every push,
\* so among equal priorities the entry pushed first.
PopIndex(q) ==
    CHOOSE i \in 1..Len(q) :
        \A j \in 1..Len(q) :
            q[i].prio < q[j].prio \/ (q[i].prio = q[j].prio /\ i <= j)

Remove(q, i) == [k \in 1..(Len(q) - 1) |-> IF k < i THEN q[k] ELSE q[k + 1]]

\* Mutant: an equally good entry is pushed again.
NotBetterStrict(qcost, ncost) == qcost < ncost

\* "if qcost <= ncost: continue" for a neighbour already enqueued
NotBetter(qcost, ncost) == qcost <= ncost

\* The walk back along the parent links, before path.reverse().
RECURSIVE WalkBack(_, _)
WalkBack(node, expl) ==
    IF node = None THEN <<>> ELSE <<node>> \o WalkBack(expl[node], expl)

RECURSIVE Reverse(_)
Reverse(s) == IF s = <<>> THEN <<>> ELSE Append(Reverse(Tail(s)), Head(s))

\* Mutant: the path starts from the parent, the target itself is left out.
ReconstructPathNoTarget(curnode, parent, expl) ==
    Reverse(WalkBack(parent, expl))

\* path = [curnode]; follow parent and explored[...] to None; reverse
ReconstructPath(curnode, parent, expl) ==
    Reverse(<<curnode>> \o WalkBack(parent, expl))

\* "curnode in explored" and one of its two "continue" branches is taken
SkipPopped(curnode, dist) ==
    /\ curnode \in DOMAIN explored
    /\ \/ explored[curnode] = None
       \/ enqueued[curnode].qcost < dist

\* The loop over G_succ[curnode].items(), from its i-th entry on.
RECURSIVE Relax(_, _, _, _, _, _, _)
Relax(succ, i, curnode, dist, q, enq, chg) ==
    IF i > Len(succ) THEN [queue |-> q, enqueued |-> enq, charged |-> chg]
    ELSE
        LET neighbor == succ[i].v
            cost == weight(curnode, neighbor, succ[i].data)
            ncost == Plus(dist, cost)
            chg2 == chg \cup {[u |-> curnode, v |-> neighbor, cost |-> cost]}
            known == neighbor \in DOMAIN enq
        IN  IF known /\ NotBetter(enq[neighbor].qcost, ncost)
            THEN Relax(succ, i + 1, curnode, dist, q, enq, chg2)
            ELSE
                LET h == IF known THEN enq[neighbor].h ELSE heuristic(neighbor, endpoint)
                IN  Relax(succ, i + 1, curnode, dist,
                          Append(q, [prio |-> Plus(ncost, h), node |-> neighbor,
                                     dist |-> ncost, parent |-> curnode]),
                          (neighbor :> [qcost |-> ncost, h |-> h]) @@ enq,
                          chg2)

\* Mutant: a bare "except" that handles every exception.
HandledAny(exc) == TRUE

\* wheelchairPath's "except nx.NetworkXNoPath": the one exception it handles
Handled(exc) == exc = "NetworkXNoPath"

\* How wheelchairPath ends when astar_path raises exc.
Raised(exc) ==
    IF Handled(exc)
    THEN [kind |-> "return", path |-> <<>>, exc |-> "", printed |-> TRUE, weight |-> 0]
    ELSE [kind |-> "raise", path |-> <<>>, exc |-> exc, printed |-> FALSE, weight |-> 0]

\* The entry of astar_path: both nodes must be in G, then the heap holds
\* (0, next(c), source, 0, None).
AstarEnter(o, e) ==
    /\ origin' = o
    /\ endpoint' = e
    /\ IF o \notin DOMAIN G \/ e \notin DOMAIN G
       THEN /\ pc' = "done"
            /\ result' = Raised("NodeNotFound")
            /\ queue' = queue
       ELSE /\ pc' = "search"
            /\ result' = result
            /\ queue' = <<[prio |-> 0, node |-> o, dist |-> 0, parent |-> None]>>
    /\ UNCHANGED <<G, enqueued, explored, charged>>

\* wheelchairPath(origin, endpoint, G)
CallWheelchairPath(o, e) ==
    /\ pc = "idle"
    /\ call' = [op |-> "wheelchairPath"]
    /\ AstarEnter(o, e)

\* One iteration of "while queue": the popped node is the target.
AstarFound ==
    /\ pc = "search"
    /\ queue /= <<>>
    /\ LET top == queue[PopIndex(queue)]
       IN  /\ top.node = endpoint
           /\ queue' = Remove(queue, PopIndex(queue))
           /\ result' = [kind |-> "return",
                         path |-> ReconstructPath(top.node, top.parent, explored),
                         exc |-> "", printed |-> FALSE, weight |-> 0]
           /\ pc' = "done"
    /\ UNCHANGED <<G, call, origin, endpoint, enqueued, explored, charged>>

\* One iteration of "while queue": the popped entry is dropped.
AstarSkip ==
    /\ pc = "search"
    /\ queue /= <<>>
    /\ LET top == queue[PopIndex(queue)]
       IN  /\ top.node /= endpoint
           /\ SkipPopped(top.node, top.dist)
           /\ queue' = Remove(queue, PopIndex(queue))
    /\ UNCHANGED <<G, pc, call, origin, endpoint, enqueued, explored, charged, result>>

\* One iteration of "while queue": the popped node is expanded.
AstarExpand ==
    /\ pc = "search"
    /\ queue /= <<>>
    /\ LET top == queue[PopIndex(queue)]
           r == Relax(G[top.node], 1, top.node, top.dist,
                      Remove(queue, PopIndex(queue)), enqueued, charged)
       IN  /\ top.node /= endpoint
           /\ ~SkipPopped(top.node, top.dist)
           /\ Len(r.queue) <= MaxQueue
           /\ explored' = (top.node :> top.parent) @@ explored
           /\ queue' = r.queue
           /\ enqueued' = r.enqueued
           /\ charged' = r.charged
    /\ UNCHANGED <<G, pc, call, origin, endpoint, result>>

\* The heap is empty: astar_path raises NetworkXNoPath, wheelchairPath
\* prints its message and returns [].
AstarExhausted ==
    /\ pc = "search"
    /\ queue = <<>>
    /\ result' = Raised("NetworkXNoPath")
    /\ pc' = "done"
    /\ UNCHANGED <<G, call, origin, endpoint, queue, enqueued, explored, charged>>

-----------------------------------------------------------------------------
(* pathFromCoords and a direct call of costWheelchair *)

Dist2(n, X, Y) == (Pos[n].x - X) * (Pos[n].x - X) + (Pos[n].y - Y) * (Pos[n].y - Y)

\* ox.distance.nearest_nodes(G, X, Y): the nodes nearest the point with
\* x = X and y = Y (one of them, when several are equally near).
nearest_nodes(X, Y) ==
    {n \in DOMAIN G : \A m \in DOMAIN G : Dist2(n, X, Y) <= Dist2(m, X, Y)}

\* pathFromCoords(x1, y1, x2, y2, G): origin = nearest_nodes(G, y1, x1) and
\* destination = nearest_nodes(G, y1, x1).  The lookup is deterministic, so
\* the two calls, with the same arguments, give the same node.
CallPathFromCoords(x1, y1, x2, y2) ==
    /\ pc = "idle"
    /\ call' = [op |-> "pathFromCoords", x1 |-> x1, y1 |-> y1, x2 |-> x2, y2 |-> y2]
    /\ \E o \in nearest_nodes(y1, x1), destination \in nearest_nodes(y1, x1) :
           /\ destination = o
           /\ AstarEnter(o, destination)

\* costWheelchair(u, v, data) on the attribute dictionary of one edge
CallCostWheelchair(u, i, k) ==
    /\ pc = "idle"
    /\ i \in 1..Len(G[u])
    /\ k \in DOMAIN G[u][i].data
    /\ LET data == G[u][i].data[k]
       IN  /\ call' = [op |-> "costWheelchair", u |-> u, v |-> G[u][i].v, data |-> data]
           /\ result' = [kind |-> "return", path |-> <<>>, exc |-> "", printed |-> FALSE,
                         weight |-> costWheelchair(u, G[u][i].v, data)]
    /\ pc' = "done"
    /\ UNCHANGED <<G, origin, endpoint, queue, enqueued, explored, charged>>

-----------------------------------------------------------------------------

Next ==
    \/ \E o, e \in NodeIds : CallWheelchairPath(o, e)
    \/ \E x1, x2 \in Xs, y1, y2 \in Ys : CallPathFromCoords(x1, y1, x2, y2)
    \/ \E u \in Nodes, i \in 1..2, k \in {"0", "1"} : CallCostWheelchair(u, i, k)
    \/ AstarFound
    \/ AstarSkip
    \/ AstarExpand
    \/ AstarExhausted

Spec == Init /\ [][Next]_vars

\* The search is one synchronous call: it keeps running until it returns.
LiveSpec == Init /\ [][Next]_vars /\ WF_vars(Next)

-----------------------------------------------------------------------------
(* What the properties speak about: the accessible edges of G *)

PathCall == call.op \in {"wheelchairPath", "pathFromCoords"}

Accessible(a) == "wheelchair" \in DOMAIN a /\ a.wheelchair = "yes"

EdgeLength(a) == IF "length" \in DOMAIN a THEN a.length ELSE 1

\* The attribute dictionaries of all the parallel edges u -> v.
EdgeAttrs(u, v) ==
    UNION {{G[u][i].data[k] : k \in DOMAIN G[u][i].data} :
              i \in {j \in 1..Len(G[u]) : G[u][j].v = v}}

AccLengths(u, v) == {EdgeLength(a) : a \in {b \in EdgeAttrs(u, v) : Accessible(b)}}

AccStep(u, v) == AccLengths(u, v) /= {}

Min(S) == CHOOSE x \in S : \A y \in S : x <= y

StepCost(u, v) == IF AccStep(u, v) THEN Min(AccLengths(u, v)) ELSE Inf

RECURSIVE Closure(_)
Closure(S) ==
    LET T == S \cup {v \in Nodes : \E u \in S : AccStep(u, v)}
    IN  IF T = S THEN S ELSE Closure(T)

\* The nodes a chain of accessible edges leads to from o.
AccReach(o) == Closure({o})

\* Brute force: the least cost from o over accessible edges, in at most k steps.
RECURSIVE BestWithin(_, _)
BestWithin(o, k) ==
    IF k = 0 THEN [n \in Nodes |-> IF n = o THEN 0 ELSE Inf]
    ELSE LET D == BestWithin(o, k - 1)
         IN  [n \in Nodes |-> Min({D[n]} \cup {Plus(D[u], StepCost(u, n)) : u \in Nodes})]

MinAccCost(o, d) == BestWithin(o, Cardinality(Nodes) - 1)[d]

RECURSIVE PathCost(_)
PathCost(p) ==
    IF Len(p) <= 1 THEN 0
    ELSE Plus(StepCost(p[1], p[2]), PathCost(Tail(p)))

\* The heuristic never overestimates the accessible cost to the endpoint.
Admissible == \A n \in Nodes : euclidianDistNode(n, endpoint) <= MinAccCost(n, endpoint)

\* The heap never reaches the bound of the model.
QueueWithinBound == Len(queue) < MaxQueue

-----------------------------------------------------------------------------
(* The claims *)

\* C1: with origin and destination in the graph and no chain of accessible
\* edges from origin to destination, wheelchairPath returns the empty list.
C1_NoAccessibleChainGivesNoPath ==
    (PathCall /\ pc = "done" /\ origin \in DOMAIN G /\ endpoint \in DOMAIN G
        /\ endpoint \notin AccReach(origin))
    => (result.kind = "return" /\ result.path = <<>>)

\* C2: a non-empty returned path starts at origin, ends at destination and
\* every consecutive pair is joined by an accessible (finite-cost) edge.
C2_PathUsesAccessibleEdges ==
    (PathCall /\ pc = "done" /\ result.kind = "return" /\ result.path /= <<>>)
    => LET p == result.path
       IN  /\ p[1] = origin
           /\ p[Len(p)] = endpoint
           /\ \A i \in 1..(Len(p) - 1) : AccStep(p[i], p[i + 1])

\* C3: when an accessible path exists and the heuristic is admissible, the
\* returned path costs the brute-force minimum over accessible paths.
C3_ReturnedPathIsCheapest ==
    (PathCall /\ pc = "done" /\ origin \in DOMAIN G /\ endpoint \in DOMAIN G
        /\ endpoint \in AccReach(origin) /\ Admissible)
    => /\ result.kind = "return"
       /\ result.path /= <<>>
       /\ PathCost(result.path) = MinAccCost(origin, endpoint)

\* C4: on an edge's attributes costWheelchair returns inf exactly when the
\* wheelchair attribute is not "yes" (unknown, no, missing), and otherwise
\* the edge's length, or 1 when the length is absent.
C4_CostOfEdge ==
    call.op = "costWheelchair"
    => LET a == call.data
       IN  /\ (result.weight = Inf) <=> ~("wheelchair" \in DOMAIN a /\ a.wheelchair = "yes")
           /\ ("wheelchair" \in DOMAIN a /\ a.wheelchair = "yes")
                  => result.weight = (IF "length" \in DOMAIN a THEN a.length ELSE 1)

\* C4 witness: costWheelchair returned 1 for an accessible edge with no length.
C4_Witness ==
    /\ call.op = "costWheelchair"
    /\ Accessible(call.data)
    /\ "length" \notin DOMAIN call.data
    /\ result.weight = 1

\* C5: when one of the parallel edges u -> v is accessible, the cost the
\* search charges for the step u -> v is the length of an accessible one.
C5_ParallelEdgeCharged ==
    \A c \in charged :
        (Cardinality(EdgeAttrs(c.u, c.v)) > 1 /\ AccStep(c.u, c.v))
        => c.cost \in AccLengths(c.u, c.v)

\* C6: with origin or destination not in the graph the call is rejected
\* before any search step, by an outcome that is not the empty list, and
\* nothing is printed.
C6_AbsentNodeRejected ==
    (PathCall /\ (origin \notin DOMAIN G \/ endpoint \notin DOMAIN G))
    => /\ pc = "done"
       /\ result.kind = "raise"
       /\ result.exc = "NodeNotFound"
       /\ ~result.printed
       /\ Len(queue) = 0
       /\ DOMAIN enqueued = {}
       /\ DOMAIN explored = {}
       /\ charged = {}

\* C6 witness: a call with an origin that is not a node of G has ended.
C6_Witness ==
    /\ call.op = "wheelchairPath"
    /\ pc = "done"
    /\ origin \notin DOMAIN G
    /\ endpoint \in DOMAIN G
    /\ result.kind = "raise"

\* C7: with origin = destination in the graph the call returns [origin],
\* of cost 0 (no edge cost is charged), never the empty list.
C7_OriginIsDestination ==
    (PathCall /\ pc = "done" /\ origin = endpoint /\ origin \in DOMAIN G)
    => /\ result.kind = "return"
       /\ result.path = <<origin>>
       /\ PathCost(result.path) = 0
       /\ charged = {}

\* C7 witness: [origin] returned from a node whose outgoing edges all are
\* inaccessible.
C7_Witness ==
    /\ call.op = "wheelchairPath"
    /\ pc = "done"
    /\ origin = endpoint
    /\ origin \in DOMAIN G
    /\ Len(G[origin]) = 2
    /\ \A v \in Nodes : ~AccStep(origin, v)
    /\ result.path = <<origin>>

\* C8: pathFromCoords passes to wheelchairPath, as destination, the node
\* nearest (x2, y2) (in either order of the two coordinates).
C8_DestinationFromSecondPoint ==
    (call.op = "pathFromCoords" /\ pc /= "idle")
    => endpoint \in nearest_nodes(call.x2, call.y2) \cup nearest_nodes(call.y2, call.x2)

\* C9: every frontier entry, and every recorded gScore, is finite: no
\* infinite-cost edge is relaxed into the frontier.
C9_FrontierFinite ==
    /\ \A i \in 1..Len(queue) : queue[i].dist < Inf
    /\ \A n \in DOMAIN enqueued : enqueued[n].qcost < Inf

\* C10: every search terminates, and a search with origin and destination in
\* the graph ends either with a path ending at destination or, once the
\* frontier is empty, with the empty list.
C10_Terminates ==
    /\ (pc = "search") ~> (pc = "done")
    /\ [](  (PathCall /\ pc = "done" /\ origin \in DOMAIN G /\ endpoint \in DOMAIN G)
          => /\ result.kind = "return"
             /\ IF result.path = <<>>
                THEN Len(queue) = 0 /\ result.printed
                ELSE result.path[Len(result.path)] = endpoint /\ ~result.printed)

\* C10 witness: a search around the cycle 2 <-> 3 ended with no path to the
\* isolated node.
C10_Witness ==
    /\ call.op = "wheelchairPath"
    /\ pc = "done"
    /\ origin = 1
    /\ endpoint = 4
    /\ Len(G[2]) = 1
    /\ Len(G[3]) = 1
    /\ DOMAIN explored = {1, 2, 3}
    /\ result.kind = "return"
    /\ result.path = <<>>

=============================================================================
